---- MODULE Spec2Model ----
(***************************************************************************)
(* Model of package atecc608 (src/atecc608/atecc608.go): the CRC-16        *)
(* checksum, response verification, the Wake/Idle/Sleep power-state        *)
(* writes, the command executor ExecuteCmd and the three command library   *)
(* operations Info, SelfTest and SHA256.                                   *)
(*                                                                         *)
(* The bus transport (armoryctl.I2CWrite / armoryctl.I2CRead) is an        *)
(* external collaborator: every write may fail, every read may fail or     *)
(* return any buffer of at most the requested length.                      *)
(***************************************************************************)
EXTENDS Integers, Sequences, FiniteSets, TLC

VARIABLES
    op,         \* the exported function running: "none" or its name
    pc,         \* position inside the running call
    args,       \* arguments of the running top-level call
    cmdArgs,    \* arguments of the ExecuteCmd call in progress
    deferIdle,  \* ExecuteCmd has registered "defer Idle()"
    resCount,   \* ExecuteCmd: the buffer returned by the 1-byte length read
    wakeRes,    \* Wake: the buffer its 4-byte read returned, while Wake runs
    wakeRet,    \* what the last Wake call returned: [err, panic]
    ret,        \* what the last ExecuteCmd call returned: [data, err, panic]
    msg_bytes,  \* SHA256: the decoded message
    blk,        \* SHA256: the loop variable i
    shaPc,      \* SHA256: the sub-command in progress ("Start", "Update", "End")
    out,        \* what the top-level call returned: [res, err, panic]
    bus,        \* the bus operations issued since the top-level call began
    faults      \* transport errors injected since the top-level call began

vars == <<op, pc, args, cmdArgs, deferIdle, resCount, wakeRes, wakeRet, ret,
          msg_bytes, blk, shaPc, out, bus, faults>>

----------------------------------------------------------------------------
(* Program constants *)

I2CAddress == 96

CmdAddress == 3

CRC16Poly == 32773

CmdMinLen == 7

ResponseMinLen == 4

CmdRead == 2

CmdSelfTest == 119

CmdSHA256 == 71

SHA_MODE_SHA256_START == 0

SHA_MODE_SHA256_UPDATE == 1

SHA_MODE_SHA256_END == 2

(* Bounds of the model *)

\* transport errors the bus may raise during one top-level call
MaxFaults == 1

\* the longest SHA256 message, in decoded bytes
MaxMsgLen == 130

\* the longest data field of a direct ExecuteCmd call
MaxDataLen == 2

\* the data length of a direct ExecuteCmd call with a frame of 256 bytes
LongDataLen == 249

\* the longest byte sequence of the exhaustive inputs of a direct crc16 call
MaxCrcLen == 3

----------------------------------------------------------------------------
(* Bytes and bit operations *)

Byte == 0..255

\* bit k of x
Bit(x, k) == (x \div (2 ^ k)) % 2

\* a & b over n bits
BitAnd(a, b, n) ==
    LET and[k \in 0..n] ==
            IF k = n THEN 0
            ELSE (Bit(a, k) * Bit(b, k) * (2 ^ k)) + and[k + 1]
    IN  and[0]

\* the bits set in the polynomial
PolyBits == {k \in 0..15 : Bit(CRC16Poly, k) = 1}

RECURSIVE FlipBits(_, _)
\* x with every bit of the set ks inverted
FlipBits(x, ks) ==
    IF ks = {} THEN x
    ELSE LET k == CHOOSE j \in ks : TRUE
         IN  FlipBits(IF Bit(x, k) = 1 THEN x - (2 ^ k) ELSE x + (2 ^ k),
                      ks \ {k})

\* crc ^ CRC16Poly on 16 bits
XorPoly(crc) == FlipBits(crc, PolyBits)

\* uint8(0x01) << k, the value of "shift" in the k-th round of the bit loop
ShiftOf(k) == 2 ^ k

\* a round of the inner loop that takes the top bit of every byte as 0
CrcBitLowSeven(crc, b, k) ==
    LET d == IF k < 7 /\ (b \div ShiftOf(k)) % 2 # 0 THEN 1 ELSE 0
        c == crc \div 32768
        s == (crc * 2) % 65536
    IN  IF d # c THEN XorPoly(s) ELSE s

\* one round of the inner loop of crc16: data bit k of byte b into crc
CrcBit(crc, b, k) ==
    LET d == IF (b \div ShiftOf(k)) % 2 # 0 THEN 1 ELSE 0
        c == crc \div 32768
        s == (crc * 2) % 65536
    IN  IF d # c THEN XorPoly(s) ELSE s

RECURSIVE CrcByte(_, _, _)
\* the inner loop of crc16 from round k on: shift = 0x01, 0x02, ..., 0x80
CrcByte(crc, b, k) ==
    IF k > 7 THEN crc ELSE CrcByte(CrcBit(crc, b, k), b, k + 1)

RECURSIVE CrcFrom(_, _, _, _)
\* the outer loop of crc16 over the bytes lo..hi (1-based) of data, in index
\* order: the bytes up to the middle first, then the others from the register
\* the first part left (the test on it has it computed before the loop goes on)
CrcFrom(crc, data, lo, hi) ==
    IF lo > hi THEN crc
    ELSE IF lo = hi THEN CrcByte(crc, data[lo], 0)
    ELSE LET mid  == (lo + hi) \div 2
             next == CrcFrom(crc, data, lo, mid)
         IN  IF next \in 0..65535 THEN CrcFrom(next, data, mid + 1, hi) ELSE next

\* crc16(data): the register as two bytes, low byte first
crc16(data) ==
    LET crc == CrcFrom(0, data, 1, Len(data))
    IN  <<crc % 256, crc \div 256>>

----------------------------------------------------------------------------
(* Go slices and errors *)

\* A byte slice: b holds its elements, tail the bytes of the underlying array
\* between its length and its capacity (reachable by re-slicing only).
Slice(b, tail) == [b |-> b, tail |-> tail]

NilSlice == Slice(<<>>, <<>>)

\* s[lo:hi] panics unless hi <= cap(s)
SliceInRange(s, hi) == hi <= Len(s.b) + Len(s.tail)

\* the bytes of s[lo:hi] (0-based, hi exclusive), for hi within the capacity
SliceBytes(s, lo, hi) == SubSeq(s.b \o s.tail, lo + 1, hi)

Err(msg, code) == [msg |-> msg, code |-> code]

NoErr == Err("nil", 0)

\* the error of the n-th bus operation of the call, as the transport made it
TransportError(n) == Err("transport error", n)

----------------------------------------------------------------------------
(* Device status/error codes *)

\* Status[status]; the empty string for a byte that is no key of the map
Status(status) ==
    CASE status = 0   -> "successful command execution"
      [] status = 1   -> "checkmac or verify miscompare"
      [] status = 3   -> "parse error"
      [] status = 5   -> "ECC fault"
      [] status = 7   -> "self test error"
      [] status = 8   -> "health test error"
      [] status = 15  -> "execution error"
      [] status = 17  -> "after wake, prior to first command"
      [] status = 238 -> "watchdog about to expire"
      [] status = 255 -> "CRC or other communications error"
      [] OTHER        -> ""

\* the names of the map Test, and Test[k]
TestNames == {"SHA", "AES", "ECDH", "ECDSA Sign", "ECDSA Verify", "RNG DRBG"}

Test(k) ==
    CASE k = "SHA"          -> 32
      [] k = "AES"          -> 16
      [] k = "ECDH"         -> 8
      [] k = "ECDSA Sign"   -> 4
      [] k = "ECDSA Verify" -> 2
      [] k = "RNG DRBG"     -> 1

----------------------------------------------------------------------------
(* verifyResponse *)

\* the condition under which verifyResponse reads the status byte
IsStatusResponse(res, count) == count = 4

\* a status decoding that lets the codes from 0x0f on pass
StatusErrorBelow0f(status) ==
    IF Status(status) = "" THEN Err("invalid status/error code", status)
    ELSE IF status # 0 /\ (status < 15 \/ status = 255)
         THEN Err(Status(status), 0)
         ELSE NoErr

\* the status branch of verifyResponse: data[0] as a status/error code
StatusError(status) ==
    IF Status(status) = "" THEN Err("invalid status/error code", status)
    ELSE IF status # 0 /\ (status <= 15 \/ status = 255)
         THEN Err(Status(status), 0)
         ELSE NoErr

\* a checksum comparison that looks at the high byte only
ChecksumOkHighByte(payload, crc) == crc16(payload)[2] = crc[2]

\* bytes.Equal(crc16(payload), crc)
ChecksumOk(payload, crc) == crc16(payload) = crc

\* verifyResponse(res) for a slice res: the pair (data, err)
verifyResponse(res) ==
    IF Len(res.b) < ResponseMinLen
    THEN [data |-> NilSlice,
          err  |-> Err("invalid response, got less than 4 bytes", 0)]
    ELSE
        LET size    == Len(res.b) - 2
            count   == res.b[1]
            payload == SubSeq(res.b, 1, size)
            data    == Slice(SubSeq(res.b, 2, size),
                             SubSeq(res.b, size + 1, Len(res.b)) \o res.tail)
            crc     == SubSeq(res.b, size + 1, Len(res.b))
        IN  IF ~ChecksumOk(payload, crc)
            THEN [data |-> data, err |-> Err("checksum verification failure", 0)]
            ELSE IF ~IsStatusResponse(res, count)
            THEN [data |-> data, err |-> NoErr]
            ELSE [data |-> data, err |-> StatusError(data.b[1])]

----------------------------------------------------------------------------
(* Command frames *)

\* the frame ExecuteCmd assembles: count | opcode | param1 | param2 | data | crc16
CmdFrame(a) ==
    LET count == (CmdMinLen + Len(a.data)) % 256
        cmd   == <<count, a.opcode, a.param1>> \o a.param2 \o a.data
    IN  cmd \o crc16(cmd)

CmdArgs(opcode, param1, param2, data, wake) ==
    [opcode |-> opcode, param1 |-> param1, param2 |-> param2,
     data |-> data, wake |-> wake]

NoArgs == CmdArgs(0, 0, <<0, 0>>, <<>>, FALSE)

----------------------------------------------------------------------------
(* The bus transport: what the device and the bus may answer *)

\* count | payload followed by its checksum
Framed(body) == body \o crc16(body)

\* count | payload followed by a checksum altered in its first byte
Corrupted(body) ==
    LET c == crc16(body) IN body \o <<(c[1] + 1) % 256, c[2]>>

RECURSIVE Zeros(_)
Zeros(n) == IF n <= 0 THEN <<>> ELSE <<0>> \o Zeros(n - 1)

\* a 13-byte payload shaped like the first configuration bytes
ConfigPayload == <<1, 35, 167, 205, 0, 0, 96, 2, 78, 10, 172, 254, 238>>

\* status bytes the device answers with in an exchange
ChipStatus == {0, 1, 17, 32, 66, 238}

\* buffers a read of the device may return
ChipFrames ==
    {Framed(<<4, s>>) : s \in ChipStatus}
    \cup {Corrupted(<<4, 0>>), Corrupted(<<4, 17>>)}
    \cup {Framed(<<7, 32>>)}
    \cup {Framed(<<4, 1, 2>>), Framed(<<5, 32, 9>>)}
    \cup {Framed(<<16>> \o ConfigPayload)}
    \cup {<<>>, <<4, 17, 51>>}

\* what I2CRead(bus, addr, reg, size) may return without an error: a buffer of
\* at most size bytes, whose capacity is its length or the size asked for
ReadBuffers(size) ==
    LET fits == {f \in ChipFrames : Len(f) <= size}
    IN  {Slice(f, <<>>) : f \in fits}
        \cup {Slice(f, Zeros(size - Len(f))) : f \in fits}

\* what the 1-byte read of the output FIFO length may return without an error
LenBuffers == {<<>>, <<0>>, <<4>>, <<16>>}

\* entries of the bus log
BusWrite(addr, reg, data, failed) ==
    [kind |-> "write", addr |-> addr, reg |-> reg, data |-> data,
     size |-> Len(data), failed |-> failed]

BusRead(addr, reg, size, failed) ==
    [kind |-> "read", addr |-> addr, reg |-> reg, data |-> <<>>,
     size |-> size, failed |-> failed]

\* the bus may fail an operation while the fault budget lasts
MayFail(failed) == failed => faults < MaxFaults

Charge(failed) == faults' = IF failed THEN faults + 1 ELSE faults

----------------------------------------------------------------------------
(* hex.DecodeString and the messages given to SHA256 *)

\* the value of a hexadecimal digit character, -1 for any other character
HexVal(c) ==
    IF c >= 48 /\ c <= 57 THEN c - 48
    ELSE IF c >= 97 /\ c <= 102 THEN c - 87
    ELSE IF c >= 65 /\ c <= 70 THEN c - 55
    ELSE -1

\* hex.DecodeString(msg): the bytes, and an error for a character that is no
\* hexadecimal digit or for an odd length
HexDecode(msg) ==
    LET n   == Len(msg) \div 2
        bad == \E k \in 1..Len(msg) : HexVal(msg[k]) < 0
    IN  IF bad THEN [bytes |-> <<>>, err |-> Err("encoding/hex: invalid byte", 0)]
        ELSE IF Len(msg) % 2 = 1
        THEN [bytes |-> <<>>, err |-> Err("encoding/hex: odd length hex string", 0)]
        ELSE [bytes |-> [k \in 1..n |->
                            (16 * HexVal(msg[(2 * k) - 1])) + HexVal(msg[2 * k])],
              err |-> NoErr]

HexDigit(v) == IF v < 10 THEN 48 + v ELSE 87 + v

\* the lower-case hexadecimal text of a byte sequence
HexEncode(b) ==
    [k \in 1..(2 * Len(b)) |->
        IF k % 2 = 1 THEN HexDigit(b[(k + 1) \div 2] \div 16)
        ELSE HexDigit(b[k \div 2] % 16)]

\* the message bytes used as input: byte i (0-based) of a message
MsgByte(i) == ((37 * i) + 11) % 256

Message(L) == [k \in 1..L |-> MsgByte(k - 1)]

StrLens == {0, 1, 63, 64, 65, 128, 130, MaxMsgLen}

HexLens == {0, 2, 64, 130}

ShaInputs ==
    {[sfmt |-> "str", msg |-> Message(L)] : L \in StrLens}
    \cup {[sfmt |-> "hex", msg |-> HexEncode(Message(L))] : L \in HexLens}
    \cup {[sfmt |-> "hex", msg |-> <<122, 122>>],
          [sfmt |-> "hex", msg |-> <<97, 98, 99>>],
          [sfmt |-> "raw", msg |-> Message(2)]}

NoInput == [sfmt |-> "", msg |-> <<>>]

----------------------------------------------------------------------------
(* State *)

NoWakeRet == [err |-> NoErr, panic |-> FALSE]

NoRet == [data |-> NilSlice, err |-> NoErr, panic |-> FALSE]

NoOut == [res |-> <<>>, err |-> NoErr, panic |-> FALSE]

Init ==
    /\ op = "none"
    /\ pc = "Idle"
    /\ args = NoInput
    /\ cmdArgs = NoArgs
    /\ deferIdle = FALSE
    /\ resCount = <<>>
    /\ wakeRes = NilSlice
    /\ wakeRet = NoWakeRet
    /\ ret = NoRet
    /\ msg_bytes = <<>>
    /\ blk = 0
    /\ shaPc = ""
    /\ out = NoOut
    /\ bus = <<>>
    /\ faults = 0

\* where ExecuteCmd starts: at Wake when the wake flag is set
ExecEntry(a) == IF a.wake THEN "WakeWrite" ELSE "CmdWrite"

\* a call ExecuteCmd(a): a new activation, its results and locals unset
ExecCall(a) ==
    /\ cmdArgs' = a
    /\ pc' = ExecEntry(a)
    /\ ret' = NoRet
    /\ resCount' = <<>>
    /\ wakeRet' = NoWakeRet

\* ExecuteCmd returning without running a deferred Idle
ExitWithoutIdle == "ExecReturned"

\* where ExecuteCmd goes when it returns: through the deferred Idle if any
ExecExit == IF deferIdle THEN "ExecIdle" ELSE "ExecReturned"

----------------------------------------------------------------------------
(* Calls of the exported functions *)

DataArgs == {Message(n) : n \in {0, MaxDataLen, LongDataLen}}

CallVerifyInputs ==
    {Framed(<<c, s>>) : c \in {4, 5, 7}, s \in Byte}
    \cup {Corrupted(<<c, s>>) : c \in {4, 5}, s \in {0, 1, 17, 66}}
    \cup {Framed(<<c, s, t>>) : c \in {4, 5, 7}, s \in {0, 1, 17, 66}, t \in {0, 9}}
    \cup {Corrupted(<<c, s, 9>>) : c \in {4, 5}, s \in {0, 1, 66}}
    \cup {SubSeq(<<4, 17, 51, 67>>, 1, n) : n \in 0..3}

\* a direct call of verifyResponse(res)
CallVerifyResponse ==
    /\ pc = "Idle"
    /\ \E f \in CallVerifyInputs :
          LET v == verifyResponse(Slice(f, <<>>))
          IN  /\ args' = [sfmt |-> "", msg |-> f]
              /\ out' = [res |-> v.data, err |-> v.err, panic |-> FALSE]
    /\ op' = "verifyResponse"
    /\ pc' = "Done"
    /\ UNCHANGED <<wakeRes, cmdArgs, deferIdle, resCount, wakeRet, ret, msg_bytes, blk,
                   shaPc, bus, faults>>

\* the bytes the exhaustive inputs of crc16 are made of
CrcBytes == {0, 1, 128, 255}

\* byte sequences given to crc16: every sequence of 1..MaxCrcLen bytes over
\* CrcBytes, the body of the wake-up response, and a 64-byte block
CrcInputs ==
    UNION {[1..n -> CrcBytes] : n \in 1..MaxCrcLen}
    \cup {<<4, 17>>, Message(64)}

\* data with bit pos inverted (bit pos % 8 of byte pos \div 8, 0-based)
FlipBit(data, pos) ==
    LET i == (pos \div 8) + 1
        k == pos % 8
        b == data[i]
    IN  [data EXCEPT ![i] = IF Bit(b, k) = 1 THEN b - (2 ^ k) ELSE b + (2 ^ k)]

\* a direct call of crc16(data), and one of crc16 on data with one bit inverted
CallCrc16 ==
    /\ pc = "Idle"
    /\ \E data \in CrcInputs :
          \E pos \in 0..((8 * Len(data)) - 1) :
              /\ args' = [sfmt |-> "", msg |-> data]
              /\ out' = [res |-> [bit     |-> pos,
                                  sum     |-> crc16(data),
                                  flipped |-> crc16(FlipBit(data, pos))],
                         err |-> NoErr, panic |-> FALSE]
    /\ op' = "crc16"
    /\ pc' = "Done"
    /\ UNCHANGED <<wakeRes, cmdArgs, deferIdle, resCount, wakeRet, ret, msg_bytes, blk,
                   shaPc, bus, faults>>

CallWake ==
    /\ pc = "Idle"
    /\ op' = "Wake"
    /\ pc' = "WakeWrite"
    /\ UNCHANGED <<wakeRes, args, cmdArgs, deferIdle, resCount, wakeRet, ret, msg_bytes,
                   blk, shaPc, out, bus, faults>>

CallExecuteCmd ==
    /\ pc = "Idle"
    /\ \E opcode \in {CmdRead, CmdSelfTest}, data \in DataArgs, wake \in BOOLEAN :
          ExecCall(CmdArgs(opcode, 0, <<0, 0>>, data, wake))
    /\ op' = "ExecuteCmd"
    /\ UNCHANGED <<wakeRes, args, deferIdle, msg_bytes, blk, shaPc, out, bus, faults>>

CallInfo ==
    /\ pc = "Idle"
    /\ op' = "Info"
    /\ ExecCall(CmdArgs(CmdRead, 128, <<0, 0>>, <<>>, TRUE))
    /\ UNCHANGED <<wakeRes, args, deferIdle, msg_bytes, blk, shaPc, out, bus, faults>>

CallSelfTest ==
    /\ pc = "Idle"
    /\ op' = "SelfTest"
    /\ ExecCall(CmdArgs(CmdSelfTest, 59, <<0, 0>>, <<>>, TRUE))
    /\ UNCHANGED <<wakeRes, args, deferIdle, msg_bytes, blk, shaPc, out, bus, faults>>

CallSHA256 ==
    /\ pc = "Idle"
    /\ \E in \in ShaInputs : args' = in
    /\ op' = "SHA256"
    /\ shaPc' = "Start"
    /\ ExecCall(CmdArgs(CmdSHA256, SHA_MODE_SHA256_START, <<0, 0>>, <<>>, TRUE))
    /\ UNCHANGED <<wakeRes, deferIdle, msg_bytes, blk, out, bus, faults>>

----------------------------------------------------------------------------
(* Wake *)

\* a first write of Wake whose error is returned by Wake
WakeWriteChecked ==
    /\ pc = "WakeWrite"
    /\ \E failed \in BOOLEAN :
          /\ MayFail(failed)
          /\ bus' = Append(bus, BusWrite(0, 1, <<0>>, failed))
          /\ Charge(failed)
          /\ IF failed
             THEN /\ wakeRet' = [err |-> TransportError(Len(bus')), panic |-> FALSE]
                  /\ pc' = "WakeReturned"
             ELSE /\ pc' = "WakeRead"
                  /\ UNCHANGED wakeRet
    /\ UNCHANGED <<wakeRes, op, args, cmdArgs, deferIdle, resCount, ret,
                   msg_bytes, blk, shaPc, out>>

\* the first write of Wake: a zero byte to register 1 of address 0; its error
\* is discarded
WakeWrite ==
    /\ pc = "WakeWrite"
    /\ \E failed \in BOOLEAN :
          /\ MayFail(failed)
          /\ bus' = Append(bus, BusWrite(0, 1, <<0>>, failed))
          /\ Charge(failed)
    /\ pc' = "WakeRead"
    /\ UNCHANGED <<wakeRes, op, args, cmdArgs, deferIdle, resCount, wakeRet, ret,
                   msg_bytes, blk, shaPc, out>>

\* what Wake makes of the verification of the buffer it read
WakeTolerates(v) == v.data.b[1] = 17

WakeCheck(res) ==
    LET v == verifyResponse(res)
    IN  IF v.err = NoErr THEN [err |-> NoErr, panic |-> FALSE]
        ELSE IF Len(v.data.b) = 0
        THEN [err |-> v.err, panic |-> TRUE]        \* data[0] on a nil slice
        ELSE IF ~WakeTolerates(v)
        THEN [err |-> Err("wake-up failed", 0), panic |-> FALSE]
        ELSE [err |-> v.err, panic |-> FALSE]

\* the verifying 4-byte read of Wake and the verification of what it returned
WakeRead ==
    /\ pc = "WakeRead"
    /\ \/ /\ MayFail(TRUE)
          /\ bus' = Append(bus, BusRead(I2CAddress, 0, 4, TRUE))
          /\ Charge(TRUE)
          /\ wakeRet' = [err |-> TransportError(Len(bus')), panic |-> FALSE]
          /\ UNCHANGED wakeRes
       \/ /\ bus' = Append(bus, BusRead(I2CAddress, 0, 4, FALSE))
          /\ Charge(FALSE)
          /\ \E res \in ReadBuffers(4) :
                /\ wakeRes' = res
                /\ wakeRet' = WakeCheck(res)
    /\ pc' = "WakeReturned"
    /\ UNCHANGED <<op, args, cmdArgs, deferIdle, resCount, ret, msg_bytes, blk,
                   shaPc, out>>

\* Wake called directly returns to its caller
WakeReturn ==
    /\ pc = "WakeReturned"
    /\ op = "Wake"
    /\ out' = [res |-> <<>>, err |-> wakeRet.err, panic |-> wakeRet.panic]
    /\ wakeRes' = NilSlice
    /\ pc' = "Done"
    /\ UNCHANGED <<op, args, cmdArgs, deferIdle, resCount, wakeRet, ret,
                   msg_bytes, blk, shaPc, bus, faults>>

----------------------------------------------------------------------------
(* ExecuteCmd *)

\* an ExecuteCmd that goes on to the command whatever Wake returned
ExecAfterWakeIgnoringError ==
    /\ pc = "WakeReturned"
    /\ op # "Wake"
    /\ deferIdle' = TRUE
    /\ pc' = "CmdWrite"
    /\ wakeRes' = NilSlice
    /\ UNCHANGED <<op, args, cmdArgs, resCount, wakeRet, ret, msg_bytes, blk, shaPc,
                   out, bus, faults>>

\* ExecuteCmd after its call of Wake: return the error, or defer Idle and go on
ExecAfterWake ==
    /\ pc = "WakeReturned"
    /\ op # "Wake"
    /\ IF wakeRet.panic \/ wakeRet.err # NoErr
       THEN /\ ret' = [data |-> NilSlice, err |-> wakeRet.err,
                       panic |-> wakeRet.panic]
            /\ pc' = "ExecReturned"
            /\ UNCHANGED deferIdle
       ELSE /\ deferIdle' = TRUE
            /\ pc' = "CmdWrite"
            /\ UNCHANGED ret
    /\ wakeRes' = NilSlice
    /\ UNCHANGED <<op, args, cmdArgs, resCount, wakeRet, msg_bytes, blk, shaPc,
                   out, bus, faults>>

\* the write of the command frame to the command register
CmdWrite ==
    /\ pc = "CmdWrite"
    /\ \E failed \in BOOLEAN :
          /\ MayFail(failed)
          /\ LET cmd == CmdFrame(cmdArgs)
             IN  bus' = Append(bus, BusWrite(I2CAddress, CmdAddress, cmd, failed))
          /\ Charge(failed)
          /\ IF failed
             THEN /\ ret' = [data |-> NilSlice, err |-> TransportError(Len(bus')),
                             panic |-> FALSE]
                  /\ pc' = ExecExit
             ELSE /\ pc' = "ZeroWrite"
                  /\ UNCHANGED ret
    /\ UNCHANGED <<wakeRes, op, args, cmdArgs, deferIdle, resCount, wakeRet, msg_bytes,
                   blk, shaPc, out>>

\* the write of a zero byte to register 0; its error is discarded
ZeroWrite ==
    /\ pc = "ZeroWrite"
    /\ \E failed \in BOOLEAN :
          /\ MayFail(failed)
          /\ bus' = Append(bus, BusWrite(I2CAddress, 0, <<0>>, failed))
          /\ Charge(failed)
    /\ pc' = "LenRead"
    /\ UNCHANGED <<wakeRes, op, args, cmdArgs, deferIdle, resCount, wakeRet, ret,
                   msg_bytes, blk, shaPc, out>>

\* the 1-byte read of the number of bytes in the output buffer
LenRead ==
    /\ pc = "LenRead"
    /\ \/ /\ MayFail(TRUE)
          /\ bus' = Append(bus, BusRead(I2CAddress, CmdAddress, 1, TRUE))
          /\ Charge(TRUE)
          /\ ret' = [data |-> NilSlice, err |-> TransportError(Len(bus')),
                     panic |-> FALSE]
          /\ pc' = ExecExit
          /\ UNCHANGED resCount
       \/ /\ bus' = Append(bus, BusRead(I2CAddress, CmdAddress, 1, FALSE))
          /\ Charge(FALSE)
          /\ \E b \in LenBuffers :
                /\ resCount' = b
                /\ IF Len(b) = 0
                   THEN /\ ret' = [data |-> NilSlice, err |-> NoErr,
                                   panic |-> TRUE]     \* resCount[0]
                        /\ pc' = ExecExit
                   ELSE /\ pc' = "ResRead"
                        /\ UNCHANGED ret
    /\ UNCHANGED <<wakeRes, op, args, cmdArgs, deferIdle, wakeRet, msg_bytes, blk, shaPc,
                   out>>

\* a second read that asks for the 4 bytes of a status response, whatever the
\* length read before
ResReadFourBytes ==
    /\ pc = "ResRead"
    /\ \/ /\ MayFail(TRUE)
          /\ bus' = Append(bus, BusRead(I2CAddress, CmdAddress, 4, TRUE))
          /\ Charge(TRUE)
          /\ ret' = [data |-> NilSlice, err |-> TransportError(Len(bus')),
                     panic |-> FALSE]
       \/ /\ bus' = Append(bus, BusRead(I2CAddress, CmdAddress, 4, FALSE))
          /\ Charge(FALSE)
          /\ \E res \in ReadBuffers(4) :
                LET v == verifyResponse(res)
                IN  ret' = [data |-> v.data, err |-> v.err, panic |-> FALSE]
    /\ pc' = ExecExit
    /\ UNCHANGED <<wakeRes, op, args, cmdArgs, deferIdle, resCount, wakeRet, msg_bytes,
                   blk, shaPc, out>>

\* the read of resCount[0] bytes and the verification of what it returned
ResRead ==
    /\ pc = "ResRead"
    /\ \/ /\ MayFail(TRUE)
          /\ bus' = Append(bus, BusRead(I2CAddress, CmdAddress, resCount[1], TRUE))
          /\ Charge(TRUE)
          /\ ret' = [data |-> NilSlice, err |-> TransportError(Len(bus')),
                     panic |-> FALSE]
       \/ /\ bus' = Append(bus, BusRead(I2CAddress, CmdAddress, resCount[1], FALSE))
          /\ Charge(FALSE)
          /\ \E res \in ReadBuffers(resCount[1]) :
                LET v == verifyResponse(res)
                IN  ret' = [data |-> v.data, err |-> v.err, panic |-> FALSE]
    /\ pc' = ExecExit
    /\ UNCHANGED <<wakeRes, op, args, cmdArgs, deferIdle, resCount, wakeRet, msg_bytes,
                   blk, shaPc, out>>

\* a deferred Sleep in the place of the deferred Idle: a write to register 1
ExecDeferredSleep ==
    /\ pc = "ExecIdle"
    /\ \E failed \in BOOLEAN :
          /\ MayFail(failed)
          /\ bus' = Append(bus, BusWrite(I2CAddress, 1, <<>>, failed))
          /\ Charge(failed)
    /\ deferIdle' = FALSE
    /\ pc' = "ExecReturned"
    /\ UNCHANGED <<wakeRes, op, args, cmdArgs, resCount, wakeRet, ret, msg_bytes, blk,
                   shaPc, out>>

\* the deferred Idle: a write of no data to register 2; its error is discarded
ExecIdle ==
    /\ pc = "ExecIdle"
    /\ \E failed \in BOOLEAN :
          /\ MayFail(failed)
          /\ bus' = Append(bus, BusWrite(I2CAddress, 2, <<>>, failed))
          /\ Charge(failed)
    /\ deferIdle' = FALSE
    /\ pc' = "ExecReturned"
    /\ UNCHANGED <<wakeRes, op, args, cmdArgs, resCount, wakeRet, ret, msg_bytes, blk,
                   shaPc, out>>

\* ExecuteCmd called directly returns to its caller
ExecReturn ==
    /\ pc = "ExecReturned"
    /\ op = "ExecuteCmd"
    /\ out' = [res |-> ret.data, err |-> ret.err, panic |-> ret.panic]
    /\ pc' = "Done"
    /\ UNCHANGED <<wakeRes, op, args, cmdArgs, deferIdle, resCount, wakeRet, ret,
                   msg_bytes, blk, shaPc, bus, faults>>

----------------------------------------------------------------------------
(* The command library: Info, SelfTest, SHA256 *)

\* the library function ends without a result: ExecuteCmd failed or panicked
LibFails == ret.panic \/ ret.err # NoErr

Failed == [res |-> <<>>, err |-> ret.err, panic |-> ret.panic]

Panicked == [res |-> <<>>, err |-> NoErr, panic |-> TRUE]

\* Info: serial is data[0:4] and data[8:13], revision is data[4:8]
InfoResult(data) ==
    IF ~SliceInRange(data, 4) \/ ~SliceInRange(data, 13) THEN Panicked
    ELSE [res |-> [serial   |-> SliceBytes(data, 0, 4) \o SliceBytes(data, 8, 13),
                   revision |-> SliceBytes(data, 4, 8)],
          err |-> NoErr, panic |-> FALSE]

InfoAfterExec ==
    /\ pc = "ExecReturned"
    /\ op = "Info"
    /\ IF LibFails
       THEN out' = Failed /\ pc' = "Done"
       ELSE /\ out' = InfoResult(ret.data)
            /\ pc' = IF out'.panic THEN "Done" ELSE "Sleep"
    /\ UNCHANGED <<wakeRes, op, args, cmdArgs, deferIdle, resCount, wakeRet, ret,
                   msg_bytes, blk, shaPc, bus, faults>>

\* SelfTest: one PASS/FAIL per entry of Test, from data[0]; the map is ranged
\* over in no fixed order, so the summary is kept as a function of the name
TestFails(mask, k) == BitAnd(mask, Test(k), 8) # 0

SelfTestResult(data) ==
    [res |-> [k \in TestNames |-> IF TestFails(data.b[1], k) THEN "FAIL" ELSE "PASS"],
     err |-> NoErr, panic |-> FALSE]

SelfTestAfterExec ==
    /\ pc = "ExecReturned"
    /\ op = "SelfTest"
    /\ IF LibFails
       THEN out' = Failed /\ pc' = "Done"
       ELSE out' = SelfTestResult(ret.data) /\ pc' = "Sleep"
    /\ UNCHANGED <<wakeRes, op, args, cmdArgs, deferIdle, resCount, wakeRet, ret,
                   msg_bytes, blk, shaPc, bus, faults>>

\* a decoding that takes a message it cannot decode as the empty message
ShaDecodeLenient(in) ==
    IF in.sfmt = "hex" /\ Len(in.msg) > 0 /\ HexDecode(in.msg).err = NoErr
    THEN HexDecode(in.msg)
    ELSE IF in.sfmt = "str" THEN [bytes |-> in.msg, err |-> NoErr]
    ELSE [bytes |-> <<>>, err |-> NoErr]

\* SHA256: the decoding of the message after the Start command
ShaDecode(in) ==
    IF in.sfmt = "hex" /\ Len(in.msg) > 0 THEN HexDecode(in.msg)
    ELSE IF in.sfmt = "str" THEN [bytes |-> in.msg, err |-> NoErr]
    ELSE [bytes |-> <<>>, err |-> NoErr]

block_cnt(m) == Len(m) \div 64

\* an Update command that always carries the first block
UpdateArgsFirstBlock(m, i) ==
    CmdArgs(CmdSHA256, SHA_MODE_SHA256_UPDATE, <<64, 0>>, SubSeq(m, 1, 64), TRUE)

\* the Update command of block i: msg_bytes[i*0x40:(i+1)*0x40]
UpdateArgs(m, i) ==
    CmdArgs(CmdSHA256, SHA_MODE_SHA256_UPDATE, <<64, 0>>,
            SubSeq(m, (i * 64) + 1, (i + 1) * 64), TRUE)

\* the End command: msg_bytes[block_cnt*64:], its length as the first byte of param2
EndArgs(m) ==
    CmdArgs(CmdSHA256, SHA_MODE_SHA256_END,
            <<(Len(m) - (block_cnt(m) * 64)) % 256, 0>>,
            SubSeq(m, (block_cnt(m) * 64) + 1, Len(m)), TRUE)

\* the loop of SHA256 at index i: the next Update, or the End after the loop
ShaLoop(m, i) ==
    IF i < block_cnt(m)
    THEN /\ ExecCall(UpdateArgs(m, i))
         /\ shaPc' = "Update"
    ELSE /\ ExecCall(EndArgs(m))
         /\ shaPc' = "End"

ShaAfterStart ==
    /\ pc = "ExecReturned"
    /\ op = "SHA256"
    /\ shaPc = "Start"
    /\ IF LibFails
       THEN /\ out' = Failed
            /\ pc' = "Done"
            /\ UNCHANGED <<wakeRes, cmdArgs, resCount, wakeRet, ret, msg_bytes, blk, shaPc>>
       ELSE LET d == ShaDecode(args)
            IN  IF d.err # NoErr
                THEN /\ out' = [res |-> <<>>, err |-> d.err, panic |-> FALSE]
                     /\ pc' = "Done"
                     /\ UNCHANGED <<wakeRes, cmdArgs, resCount, wakeRet, ret, msg_bytes,
                                    blk, shaPc>>
                ELSE /\ msg_bytes' = d.bytes
                     /\ blk' = 0
                     /\ ShaLoop(d.bytes, 0)
                     /\ UNCHANGED out
    /\ UNCHANGED <<wakeRes, op, args, deferIdle, bus, faults>>

\* an Update loop that goes on to the next command after a failed Update
ShaAfterUpdateIgnoringFailure ==
    /\ pc = "ExecReturned"
    /\ op = "SHA256"
    /\ shaPc = "Update"
    /\ blk' = blk + 1
    /\ ShaLoop(msg_bytes, blk + 1)
    /\ UNCHANGED <<wakeRes, op, args, deferIdle, msg_bytes, out, bus, faults>>

ShaAfterUpdate ==
    /\ pc = "ExecReturned"
    /\ op = "SHA256"
    /\ shaPc = "Update"
    /\ IF LibFails
       THEN /\ out' = Failed
            /\ pc' = "Done"
            /\ UNCHANGED <<wakeRes, cmdArgs, resCount, wakeRet, ret, blk, shaPc>>
       ELSE /\ blk' = blk + 1
            /\ ShaLoop(msg_bytes, blk + 1)
            /\ UNCHANGED out
    /\ UNCHANGED <<wakeRes, op, args, deferIdle, msg_bytes, bus, faults>>

ShaAfterEnd ==
    /\ pc = "ExecReturned"
    /\ op = "SHA256"
    /\ shaPc = "End"
    /\ IF LibFails
       THEN out' = Failed /\ pc' = "Done"
       ELSE /\ out' = [res |-> ret.data.b, err |-> NoErr, panic |-> FALSE]
            /\ pc' = "Sleep"
    /\ UNCHANGED <<wakeRes, op, args, cmdArgs, deferIdle, resCount, wakeRet, ret,
                   msg_bytes, blk, shaPc, bus, faults>>

\* Sleep: a write of no data to register 1; its error is discarded
Sleep ==
    /\ pc = "Sleep"
    /\ \E failed \in BOOLEAN :
          /\ MayFail(failed)
          /\ bus' = Append(bus, BusWrite(I2CAddress, 1, <<>>, failed))
          /\ Charge(failed)
    /\ pc' = "Done"
    /\ UNCHANGED <<wakeRes, op, args, cmdArgs, deferIdle, resCount, wakeRet, ret,
                   msg_bytes, blk, shaPc, out>>

\* the caller takes the result; nothing of the call is kept
Return ==
    /\ pc = "Done"
    /\ op' = "none"
    /\ pc' = "Idle"
    /\ args' = NoInput
    /\ cmdArgs' = NoArgs
    /\ deferIdle' = FALSE
    /\ resCount' = <<>>
    /\ wakeRes' = NilSlice
    /\ wakeRet' = NoWakeRet
    /\ ret' = NoRet
    /\ msg_bytes' = <<>>
    /\ blk' = 0
    /\ shaPc' = ""
    /\ out' = NoOut
    /\ bus' = <<>>
    /\ faults' = 0

Next ==
    \/ CallVerifyResponse
    \/ CallCrc16
    \/ CallWake
    \/ CallExecuteCmd
    \/ CallInfo
    \/ CallSelfTest
    \/ CallSHA256
    \/ WakeWrite
    \/ WakeRead
    \/ WakeReturn
    \/ ExecAfterWake
    \/ CmdWrite
    \/ ZeroWrite
    \/ LenRead
    \/ ResRead
    \/ ExecIdle
    \/ ExecReturn
    \/ InfoAfterExec
    \/ SelfTestAfterExec
    \/ ShaAfterStart
    \/ ShaAfterUpdate
    \/ ShaAfterEnd
    \/ Sleep
    \/ Return

Spec == Init /\ [][Next]_vars

----------------------------------------------------------------------------
(* Reading the bus log *)

IsWakeWrite(e) == e.kind = "write" /\ e.addr = 0 /\ e.reg = 1

IsSleepWrite(e) == e.kind = "write" /\ e.addr = I2CAddress /\ e.reg = 1

IsIdleWrite(e) == e.kind = "write" /\ e.addr = I2CAddress /\ e.reg = 2

IsCmdWrite(e) == e.kind = "write" /\ e.addr = I2CAddress /\ e.reg = CmdAddress

IsZeroWrite(e) == e.kind = "write" /\ e.addr = I2CAddress /\ e.reg = 0

IsCmdRead(e) == e.kind = "read" /\ e.addr = I2CAddress /\ e.reg = CmdAddress

IsWakeRead(e) == e.kind = "read" /\ e.addr = I2CAddress /\ e.reg = 0

\* the greatest element of a set of naturals, 0 for the empty set
Last(S) == IF S = {} THEN 0 ELSE CHOOSE i \in S : \A j \in S : j <= i

\* the index of the wake-up write of the ExecuteCmd call in progress
LastWake == Last({i \in 1..Len(bus) : IsWakeWrite(bus[i])})

\* the index of the command-frame write of the ExecuteCmd call in progress
LastCmd == Last({i \in 1..Len(bus) : IsCmdWrite(bus[i])})

\* ExecuteCmd has returned (or panicked) after a successful Wake of its own
ReturnedAfterWake ==
    /\ pc = "ExecReturned"
    /\ cmdArgs.wake
    /\ ~wakeRet.panic
    /\ wakeRet.err = NoErr

----------------------------------------------------------------------------
(* Claims *)

C2_AnyTransportErrorAborts ==
    \A i \in 1..Len(bus) :
        (/\ LastCmd > 0
         /\ i >= LastCmd
         /\ bus[i].failed
         /\ IsCmdWrite(bus[i]) \/ IsZeroWrite(bus[i]) \/ IsCmdRead(bus[i]))
        => /\ \A j \in (i + 1)..Len(bus) : IsIdleWrite(bus[j])
           /\ pc = "ExecReturned" => ret.err = TransportError(i)

\* a library operation has returned to its caller
LibDone == pc = "Done" /\ op \in {"Info", "SelfTest", "SHA256"}

\* C3: every command library operation ends with its complete result, taken
\* from the verified payload, or with one error; it never ends abnormally
\* (no out-of-range access), also for short payloads and short wake-up reads.
C3_NeverEndsAbnormally ==
    LibDone =>
        /\ ~out.panic
        /\ (op = "Info" /\ out.err = NoErr) => Len(ret.data.b) >= 13

\* the transport succeeded at every step and the response of the exchange
\* was a checksum-valid frame with a 1-byte payload
ValidOneByteResponse ==
    /\ \A i \in 1..Len(bus) : ~bus[i].failed
    /\ ~ret.panic
    /\ wakeRet = NoWakeRet
    /\ Len(ret.data.b) = 1
    /\ ret.err # Err("checksum verification failure", 0)

\* C4: for every mask byte m returned as the 1-byte payload of a valid
\* response to SelfTest, SelfTest returns no error and a summary in which a
\* capability is FAIL exactly if its bit is set in m.
C4_SelfTestReportsEveryMask ==
    (pc = "Done" /\ op = "SelfTest" /\ ValidOneByteResponse) =>
        /\ out.err = NoErr
        /\ \A k \in TestNames :
              (out.res[k] = "FAIL") <=> ((ret.data.b[1] \div Test(k)) % 2 = 1)

\* verifyResponse was called on a buffer of at least 4 bytes whose last two
\* bytes are the checksum of the bytes before them
VerifiedValid ==
    /\ op = "verifyResponse"
    /\ pc = "Done"
    /\ Len(args.msg) >= 4
    /\ SubSeq(args.msg, Len(args.msg) - 1, Len(args.msg))
          = crc16(SubSeq(args.msg, 1, Len(args.msg) - 2))

\* C5: for a checksum-valid buffer the status byte is interpreted exactly if
\* the buffer is 4 bytes long, whatever its count byte: a longer buffer is
\* returned as payload with no error, a 4-byte buffer has its second byte
\* checked as a status code.
C5_StatusIffLengthFour ==
    VerifiedValid =>
        IF Len(args.msg) = 4
        THEN out.err = StatusError(args.msg[2])
        ELSE /\ out.err = NoErr
             /\ out.res.b = SubSeq(args.msg, 2, Len(args.msg) - 2)

\* the text of the device errors, by status code
C6_Text(s) ==
    CASE s = 1   -> "checkmac or verify miscompare"
      [] s = 3   -> "parse error"
      [] s = 5   -> "ECC fault"
      [] s = 7   -> "self test error"
      [] s = 8   -> "health test error"
      [] s = 15  -> "execution error"
      [] s = 255 -> "CRC or other communications error"

C7_LengthThenChecksum ==
    (op = "verifyResponse" /\ pc = "Done") =>
        IF Len(args.msg) < 4
        THEN out.err = Err("invalid response, got less than 4 bytes", 0)
        ELSE ~VerifiedValid => out.err = Err("checksum verification failure", 0)

\* C7 witness: a 4-byte frame with the device-error status 0x01 and an altered
\* checksum is refused for its checksum
C7_Witness ==
    /\ op = "verifyResponse"
    /\ pc = "Done"
    /\ args.msg = Corrupted(<<4, 1>>)
    /\ out.err = Err("checksum verification failure", 0)

\* Wake has read a buffer without a transport error and is about to return
WakeHasRead ==
    /\ pc = "WakeReturned"
    /\ ~bus[Len(bus)].failed

\* C8: when the verifying read succeeds but the verification of what was
\* read reports an error, for any reason, Wake returns the wake-up-failed
\* error.
C8_VerificationErrorIsWakeFailed ==
    (WakeHasRead /\ verifyResponse(wakeRes).err # NoErr) =>
        wakeRet = [err |-> Err("wake-up failed", 0), panic |-> FALSE]

\* C9: Wake returns success only if the response read back is the
\* checksum-valid frame reporting status 0x11.
C9_SuccessOnlyAfterWakeStatus ==
    (WakeHasRead /\ wakeRet = NoWakeRet) => wakeRes.b = Framed(<<4, 17>>)

\* the command frames written so far, without their checksums
CmdBodies ==
    LET w == SelectSeq(bus, IsCmdWrite)
    IN  [k \in 1..Len(w) |-> SubSeq(w[k].data, 1, Len(w[k].data) - 2)]

\* SHA256 has run to its end with every exchange succeeding
ShaSucceeded ==
    /\ op = "SHA256"
    /\ pc \in {"Sleep", "Done"}
    /\ out.err = NoErr
    /\ ~out.panic

\* msg_bytes is the message given to SHA256, decoded
IsDecoded ==
    CASE args.sfmt = "str" -> msg_bytes = args.msg
      [] args.sfmt = "hex" -> HexEncode(msg_bytes) = args.msg
      [] OTHER             -> msg_bytes = <<>>

\* C10: a successful SHA256 over a decoded message of L bytes writes one
\* Start command, then floor(L/64) Update commands in block order, the i-th
\* carrying bytes 64*i .. 64*i+63, then one End command carrying the last
\* L mod 64 bytes with param2 = L mod 64.
C10_BlockSplitting ==
    ShaSucceeded =>
        LET L == Len(msg_bytes)
            n == L \div 64
            r == L % 64
        IN  /\ IsDecoded
            /\ Len(CmdBodies) = n + 2
            /\ CmdBodies[1] = <<7, 71, 0, 0, 0>>
            /\ \A i \in 0..(n - 1) :
                  CmdBodies[i + 2] =
                      <<71, 71, 1, 64, 0>> \o [k \in 1..64 |-> msg_bytes[(64 * i) + k]]
            /\ CmdBodies[n + 2] =
                  <<7 + r, 71, 2, r, 0>> \o [k \in 1..r |-> msg_bytes[(64 * n) + k]]

\* C10 witness: a 130-byte message has been hashed: two Updates and an End
\* carrying 2 bytes with param2 = 2
C10_Witness ==
    /\ ShaSucceeded
    /\ Len(msg_bytes) = 130
    /\ Len(CmdBodies) = 4
    /\ CmdBodies[4] = <<9, 71, 2, 2, 0, MsgByte(128), MsgByte(129)>>

\* the power-state writes and the command-frame writes among the bus operations
IsPowerOp(e) == IsWakeWrite(e) \/ IsIdleWrite(e) \/ IsSleepWrite(e) \/ IsCmdWrite(e)

PowerOps == SelectSeq(bus, IsPowerOp)

\* SHA256 has returned its digest
ShaReturnedDigest ==
    /\ op = "SHA256"
    /\ pc = "Done"
    /\ out.err = NoErr
    /\ ~out.panic

InLibrary == op \in {"Info", "SelfTest", "SHA256"}

\* the step writes a command frame to the bus
WritesCmd == Len(bus') = Len(bus) + 1 /\ IsCmdWrite(bus'[Len(bus')])

\* the sub-command a SHA256 command frame carries (its param1 byte)
ModeOf(body) == body[3]

\* the k-th command frame SHA256 writes is that of its k-th sub-command:
\* Start, the Update of block k-2, or End
IsKthShaCommand(bodies, k, m) ==
    LET n == Len(m) \div 64
    IN  /\ k <= n + 2
        /\ ModeOf(bodies[k]) = (IF k = 1 THEN SHA_MODE_SHA256_START
                                ELSE IF k <= n + 1 THEN SHA_MODE_SHA256_UPDATE
                                ELSE SHA_MODE_SHA256_END)
        /\ (k > 1 /\ k <= n + 1) =>
               SubSeq(bodies[k], 6, Len(bodies[k])) = SubSeq(m, (64 * (k - 2)) + 1, 64 * (k - 1))

\* C12: within one command library operation every command frame is written
\* at most once, and once an exchange has failed (Wake failure, transport
\* error, checksum mismatch, device or unknown status) no further command
\* frame is written: the operation returns that failure at once; in SHA256 a
\* failed Start or Update is followed by no Update and no End.
C12_NoRetries ==
    [][InLibrary =>
          /\ (pc = "ExecReturned" /\ LibFails) =>
                 (pc' = "Done" /\ out' = Failed /\ bus' = bus)
          /\ pc = "Done" => ~WritesCmd
          /\ WritesCmd =>
                 /\ \A i \in (LastWake + 1)..Len(bus) : ~IsCmdWrite(bus[i])
                 /\ op \in {"Info", "SelfTest"} => Len(CmdBodies') = 1
                 /\ op = "SHA256" =>
                        IsKthShaCommand(CmdBodies', Len(CmdBodies'), msg_bytes)]_vars

\* C12 witness: SHA256 over two blocks or more has ended on the failure of
\* its first Update, with Start and that Update the only frames written
C12_Witness ==
    /\ op = "SHA256"
    /\ pc = "Done"
    /\ shaPc = "Update"
    /\ out.err # NoErr
    /\ out = Failed
    /\ block_cnt(msg_bytes) = 2
    /\ Len(CmdBodies) = 2

\* the wake-up write at index i of the log is followed by an Idle or a Sleep
BackToRest(i) ==
    \E j \in (i + 1)..Len(bus) : IsIdleWrite(bus[j]) \/ IsSleepWrite(bus[j])

\* C13: when Info, SelfTest or SHA256 returns, with a result or an error,
\* the device is not left awake: every wake-up write of the operation is
\* followed by an Idle or a Sleep write before the return, on every exit path,
\* a failed Wake included.
C13_NotLeftAwake ==
    LibDone => \A i \in 1..Len(bus) : IsWakeWrite(bus[i]) => BackToRest(i)

\* C14: for every data length n ExecuteCmd accepts, the first byte of the
\* command frame written to the bus equals 7 + n and equals the length in
\* bytes of the whole frame (count, opcode, param1, param2, n data bytes,
\* checksum), the count being one 8-bit byte.
C14_CountIsFrameLength ==
    (Len(bus) > 0 /\ IsCmdWrite(bus[Len(bus)])) =>
        LET frame == bus[Len(bus)].data
        IN  /\ frame[1] \in Byte
            /\ frame[1] = 7 + Len(cmdArgs.data)
            /\ frame[1] = Len(frame)
            /\ SubSeq(frame, 6, Len(frame) - 2) = cmdArgs.data

\* C15: the outcome of the first wake-up write never affects what Wake
\* returns (its error is discarded and the verifying 4-byte read is always
\* issued next), whereas a transport error of the verifying read is returned
\* by Wake unchanged, with no verification of a response.
C15_WakeErrorPolicy ==
    /\ pc = "WakeRead" => IsWakeWrite(bus[Len(bus)])
    /\ pc = "WakeReturned" =>
          LET n == Len(bus)
          IN  /\ n >= 2
              /\ IsWakeWrite(bus[n - 1])
              /\ IsWakeRead(bus[n])
              /\ bus[n].size = 4
              /\ IF bus[n].failed
                 THEN /\ wakeRet = [err |-> TransportError(n), panic |-> FALSE]
                      /\ wakeRes = NilSlice
                 ELSE wakeRet = WakeCheck(wakeRes)

\* C15 witness: the wake-up write failed and Wake has returned nil after
\* reading the wake-up status
C15_Witness ==
    /\ pc = "WakeReturned"
    /\ bus[Len(bus) - 1].failed
    /\ IsWakeWrite(bus[Len(bus) - 1])
    /\ wakeRes.b = Framed(<<4, 17>>)
    /\ wakeRet = NoWakeRet

\* crc16 was called on a byte sequence and on it with one bit inverted
Crc16Called == op = "crc16" /\ pc = "Done"

\* C16: for every byte sequence of the bounded set and every bit position in
\* it, inverting that one bit changes the two-byte checksum; and crc16 is a
\* function of its input alone: the same bytes always give the same two
\* bytes, low byte first (04 11 gives 33 43).
C16_SingleBitSensitivity ==
    Crc16Called =>
        /\ out.res.flipped # out.res.sum
        /\ out.res.sum = crc16(args.msg)
        /\ out.res.sum \in Byte \X Byte
        /\ args.msg = <<4, 17>> => out.res.sum = <<51, 67>>

\* C16 witness: the first bit of a 64-byte block was inverted and the
\* checksum over the 64 bytes differs
C16_Witness ==
    /\ Crc16Called
    /\ Len(args.msg) = 64
    /\ out.res.bit = 0
    /\ out.res.flipped # out.res.sum

\* an exchange of ExecuteCmd is under way or has just ended: the call has
\* written its command frame
InExchange ==
    /\ pc \in {"ZeroWrite", "LenRead", "ResRead", "ExecIdle", "ExecReturned"}
    /\ LastCmd > LastWake

IsExchangeOp(e) == ~IsIdleWrite(e) /\ ~IsSleepWrite(e)

\* the bus operations of the exchange, from the write of its command frame on
ExchangeOps == SelectSeq(SubSeq(bus, LastCmd, Len(bus)), IsExchangeOp)

\* what ExecuteCmd returns is the verification of a buffer the read could give
IsVerificationOf(size) ==
    \E res \in ReadBuffers(size) :
        /\ IF Len(res.b) < ResponseMinLen THEN ret.data = NilSlice
           ELSE ret.data.b = SubSeq(res.b, 2, Len(res.b) - 2)
        /\ LET v == verifyResponse(res)
           IN  ret = [data |-> v.data, err |-> v.err, panic |-> FALSE]

\* C17: the bus operations of one exchange of ExecuteCmd occur in this order,
\* each at most once: write of the command frame to the command register,
\* write of a zero byte to register 0, read of 1 byte from the command
\* register, read from the command register of exactly the number of bytes
\* that byte gives, then the verification of what the second read returned;
\* no read is issued unless the command-frame write has succeeded.
C17_ExchangeOrder ==
    InExchange =>
        LET x == ExchangeOps
        IN  /\ Len(x) \in 1..4
            /\ IsCmdWrite(x[1])
            /\ Len(x) >= 2 => (~x[1].failed /\ IsZeroWrite(x[2]) /\ x[2].data = <<0>>)
            /\ Len(x) >= 3 => (IsCmdRead(x[3]) /\ x[3].size = 1)
            /\ Len(x) >= 4 =>
                   (~x[3].failed /\ IsCmdRead(x[4]) /\ x[4].size = resCount[1])
            /\ (pc = "ExecReturned" /\ ~ret.panic) =>
                   IF Len(x) = 4 /\ ~x[4].failed
                   THEN IsVerificationOf(x[4].size)
                   ELSE /\ x[Len(x)].failed
                        /\ ret.data = NilSlice
                        /\ ret.err.msg = "transport error"

\* C17 witness: a full exchange whose length read gave 16 and whose second
\* read asked for 16 bytes, verified without error
C17_Witness ==
    /\ pc = "ExecReturned"
    /\ InExchange
    /\ Len(ExchangeOps) = 4
    /\ resCount = <<16>>
    /\ ExchangeOps[4].size = 16
    /\ ~ExchangeOps[4].failed
    /\ ret.err = NoErr
    /\ Len(ret.data.b) = 13

\* the Wake of the ExecuteCmd call in progress returned an error
WakeFailed == cmdArgs.wake /\ ~wakeRet.panic /\ wakeRet.err # NoErr

\* C18: when ExecuteCmd runs with wake=true and Wake fails, ExecuteCmd
\* returns the error of Wake at once: no command frame is written and no
\* result is read in that call.
C18_WakeErrorEndsCall ==
    (WakeFailed /\ pc \notin {"WakeReturned", "Done"}) =>
        /\ pc = "ExecReturned"
        /\ ret = [data |-> NilSlice, err |-> wakeRet.err, panic |-> FALSE]
        /\ LastWake = Len(bus) - 1
        /\ IsWakeRead(bus[Len(bus)])
        /\ \A i \in LastWake..Len(bus) : ~IsCmdWrite(bus[i]) /\ ~IsCmdRead(bus[i])

\* C18 witness: ExecuteCmd has returned "wake-up failed" with the wake-up
\* write and the verifying read as the only bus operations of the call
C18_Witness ==
    /\ pc = "ExecReturned"
    /\ WakeFailed
    /\ ret.err = Err("wake-up failed", 0)
    /\ LastWake = Len(bus) - 1
    /\ IsWakeRead(bus[Len(bus)])

\* SHA256 runs on a "hex" message that hex.DecodeString refuses
DecodeFails ==
    /\ op = "SHA256"
    /\ args.sfmt = "hex"
    /\ Len(args.msg) > 0
    /\ HexDecode(args.msg).err # NoErr

\* C19: SHA256 with format "hex" and a message that fails hexadecimal
\* decoding returns the decode error only after the Start exchange (wake-up,
\* Start command, Idle) has completed successfully on the bus, and after the
\* decode failure no Update command, no End command and no Sleep is written.
C19_DecodeErrorAfterStart ==
    DecodeFails =>
        /\ shaPc = "Start"
        /\ \A i \in 1..Len(bus) : ~IsSleepWrite(bus[i])
        /\ \A k \in 1..Len(CmdBodies) : k = 1 /\ CmdBodies[k] = <<7, 71, 0, 0, 0>>
        /\ pc = "Done" =>
              /\ out.res = <<>>
              /\ IF LibFails THEN out = Failed
                 ELSE /\ out.err = HexDecode(args.msg).err
                      /\ ~out.panic
                      /\ Len(bus) = 7
                      /\ IsWakeWrite(bus[1]) /\ IsWakeRead(bus[2])
                      /\ IsCmdWrite(bus[3]) /\ IsZeroWrite(bus[4])
                      /\ IsCmdRead(bus[5]) /\ IsCmdRead(bus[6])
                      /\ IsIdleWrite(bus[7])
                      /\ \A i \in {2, 3, 5, 6} : ~bus[i].failed

\* C19 witness: SHA256("hex", "zz") has returned the decode error after a
\* complete Start exchange
C19_Witness ==
    /\ op = "SHA256"
    /\ pc = "Done"
    /\ args = [sfmt |-> "hex", msg |-> <<122, 122>>]
    /\ out.err = Err("encoding/hex: invalid byte", 0)
    /\ Len(bus) = 7
    /\ IsIdleWrite(bus[7])

====
